---- MODULE Spec2Model ----
(***************************************************************************)
(* A model of libusb's descriptor.c: the field codec, the endpoint,        *)
(* interface and configuration decoders, the teardown routines and the     *)
(* configuration retrieval entry points, together with the heap they       *)
(* allocate from.                                                          *)
(***************************************************************************)
EXTENDS Integers, Sequences, FiniteSets, TLC

\* ------------------------------------------------------------ constants

DESC_HEADER_LENGTH == 2
CONFIG_DESC_LENGTH == 9
INTERFACE_DESC_LENGTH == 9
ENDPOINT_DESC_LENGTH == 7
ENDPOINT_AUDIO_DESC_LENGTH == 9

\* libusb.h / libusbi.h (not part of the sources at hand)
LIBUSB_DT_DEVICE == 1
LIBUSB_DT_CONFIG == 2
LIBUSB_DT_INTERFACE == 4
LIBUSB_DT_ENDPOINT == 5
LIBUSB_DT_INTERFACE_SIZE == 9
USB_MAXENDPOINTS == 32
USB_MAXINTERFACES == 32
LIBUSB_ERROR_IO == 0 - 1
LIBUSB_ERROR_NO_MEM == 0 - 11

\* ------------------------------------------------------------ bounds

\* descriptors that follow the configuration header in a device's stream
MaxChunks == 3
\* largest declared interface count below the architectural maximum
MaxIfaces == 2
\* bytes the device may leave out at the end of its stream
MaxCut == 1
\* configurations of the device (dev->num_configurations)
NumConfigurations == 1
\* configurations of a device that is asked for one by value
MaxConfigurations == 2
\* largest bConfigurationValue a device gives a configuration
MaxConfigValue == 2
\* format characters of a format string handed to the field codec
MaxFormat == 4
\* UTF-16 code units a string descriptor carries
MaxUnits == 2
\* largest capacity of the output buffer of the ASCII reduction
MaxCapacity == 4

\* ------------------------------------------------------------ helpers

\* an indeterminate byte: what a copy from beyond the buffer's end yields
Junk == 0 - 1

\* bytes a 2-byte header read from beyond the buffer's end may yield
OobBytes == {0, 1, LIBUSB_DT_ENDPOINT, 255}

NULL == [p |-> FALSE, b |-> <<>>]

Ptr(content) == [p |-> TRUE, b |-> content]

RECURSIVE Concat(_)
Concat(ss) == IF ss = <<>> THEN <<>> ELSE Head(ss) \o Concat(Tail(ss))

\* ------------------------------------------------------------ field codec

\* destination width of one format character
FieldWidth(c) ==
  CASE c = "b" -> 1
    [] c \in {"w", "W"} -> 2
    [] c \in {"d", "D"} -> 4
    [] OTHER -> 0

\* value of the little-endian field of width n at source offset sp (0-based)
RECURSIVE LeValue(_, _, _)
LeValue(source, sp, n) ==
  IF n = 0 THEN 0 ELSE source[sp + 1] + 256 * LeValue(source, sp + 1, n - 1)

\* the padding the codec inserts before a field stored at address dp
AlignPad(c, dp) ==
  CASE c \in {"w", "W"} -> dp % 2
    [] c \in {"d", "D"} -> 2 * ((dp \div 2) % 2)
    [] OTHER -> 0

\* usbi_parse_descriptor run over the format descriptor from source offset sp
\* and destination address dp: the values stored, the destination address of
\* each, and the cursors at the end
RECURSIVE usbi_parse_from(_, _, _, _)
usbi_parse_from(source, descriptor, sp, dp) ==
  IF descriptor = <<>>
  THEN [vals |-> <<>>, offs |-> <<>>, sp |-> sp, dp |-> dp]
  ELSE LET c == Head(descriptor)
           w == FieldWidth(c)
           at == dp + AlignPad(c, dp)
           rest == usbi_parse_from(source, Tail(descriptor), sp + w, at + w)
       IN  IF w = 0
           THEN usbi_parse_from(source, Tail(descriptor), sp, dp)
           ELSE [vals |-> <<LeValue(source, sp, w)>> \o rest.vals,
                 offs |-> <<at>> \o rest.offs,
                 sp |-> rest.sp, dp |-> rest.dp]

\* the fields usbi_parse_descriptor stores for a format, in order
usbi_parse_descriptor(source, descriptor) ==
  usbi_parse_from(source, descriptor, 0, 0).vals

\* ------------------------------------------------------------ devices

\* the descriptors a device may put after its configuration header
ChunkKinds ==
  {"IF00", "IF10", "IF01", "IF11", "IFmax", "IFlong", "IFzero", "EP", "CS", "CSbad",
   "CFG"}

IsIfKind(k) == k \in {"IF00", "IF10", "IF01", "IF11", "IFmax", "IFlong", "IFzero"}

KindAlt(k) == IF k \in {"IF10", "IF11", "IFlong", "IFzero"} THEN 1 ELSE 0

KindNumEp(k) ==
  CASE k \in {"IF01", "IF11"} -> 1
    [] k = "IFmax" -> USB_MAXENDPOINTS + 1
    [] OTHER -> 0

\* the bytes of one descriptor; ifnum is the interface number it belongs to
ChunkBytes(k, ifnum) ==
  CASE k = "IFlong" ->
         <<10, LIBUSB_DT_INTERFACE, ifnum, KindAlt(k), KindNumEp(k), 255, 0, 0, 0, 0>>
    [] k = "IFzero" ->
         <<0, LIBUSB_DT_INTERFACE, ifnum, KindAlt(k), KindNumEp(k), 255, 0, 0, 0>>
    [] IsIfKind(k) /\ k \notin {"IFlong", "IFzero"} ->
         <<9, LIBUSB_DT_INTERFACE, ifnum, KindAlt(k), KindNumEp(k), 255, 0, 0, 0>>
    [] k = "EP" -> <<7, LIBUSB_DT_ENDPOINT, 129, 2, 64, 2, 0>>
    [] k = "CS" -> <<3, 36, 7>>
    [] k = "CSbad" -> <<1, 36>>
    [] k = "CFG" -> <<9, LIBUSB_DT_CONFIG, 9, 0, 0, 0, 0, 0, 0>>

\* interface number of the chunk at index n: alternate-0 interface
\* descriptors before it start a new interface each
IfNumAt(chunks, n) ==
  LET starts == Cardinality({m \in 1..n : IsIfKind(chunks[m]) /\ KindAlt(chunks[m]) = 0})
  IN  IF starts = 0 THEN 0 ELSE starts - 1

ChunkStream(chunks) ==
  Concat([n \in 1..Len(chunks) |-> ChunkBytes(chunks[n], IfNumAt(chunks, n))])

\* the configuration descriptor a device returns: the 9-byte header, whose
\* wTotalLength is the length of what follows it plus 9, then the stream
\* with its last cut bytes missing
DeviceBytes(d) ==
  LET stream == ChunkStream(d.chunks)
      body == SubSeq(stream, 1, Len(stream) - d.cut)
      total == CONFIG_DESC_LENGTH + Len(body)
  IN  <<CONFIG_DESC_LENGTH, LIBUSB_DT_CONFIG, total % 256, total \div 256,
        d.nif, 1, 0, 128, 50>> \o body

ChunkSeqs == UNION {[1..n -> ChunkKinds] : n \in 0..MaxChunks}

Devices ==
  {d \in [chunks : ChunkSeqs,
          nif : (0..MaxIfaces) \cup {USB_MAXINTERFACES + 1},
          cut : 0..MaxCut] :
     d.cut <= Len(ChunkStream(d.chunks))}

NoDevice == [chunks |-> <<>>, nif |-> 0, cut |-> 0]

\* ------------------------------------------------------------ state

VARIABLES
  pc,       \* where the retrieval in progress stands
  dev,      \* the device descriptor the backend serves
  ncalls,   \* backend calls issued by the retrieval
  buf,      \* the raw descriptor buffer, wTotalLength bytes once fetched
  config,   \* the struct libusb_config_descriptor under construction
  live,     \* allocations that are live
  freed,    \* allocations that have been passed to free()
  dfreed,   \* allocations passed to free() when no longer live
  cpos,     \* parse_configuration: buffer, as an offset into buf
  csize,    \* parse_configuration: size
  i,        \* parse_configuration: interface slot index
  pos,      \* parse_interface: buffer, as an offset into buf
  size,     \* parse_interface: size
  parsed,   \* parse_interface: parsed
  j,        \* parse_interface: endpoint slot index
  r,        \* the decoder's return value on its way up
  ret,      \* what the entry point returned: "none", "NULL" or "config"
  trunc,    \* a descriptor was consumed whose bLength exceeded the bytes left
  peek,     \* a descriptor ending a skip scan had bLength exceeding the bytes left
  badlen,   \* a skip scan examined a header whose bLength was below 2
  oob,      \* a read touched bytes beyond the end of buf
  values,   \* the device: bConfigurationValue of each configuration, by index
  cidx,     \* the configuration index the backend is asked for
  want,     \* by_value: the bConfigurationValue asked for, NoValue otherwise
  vi,       \* by_value: i
  found,    \* by_value: found
  format,   \* field codec: the source bytes and the format string at hand
  stored,   \* field codec: what usbi_parse_descriptor stored and returned
  strdesc,  \* ASCII reduction: the string descriptor served and the capacity
  ascii     \* ASCII reduction: data and the return value

vars ==
  <<pc, dev, ncalls, buf, config, live, freed, dfreed, cpos, csize, i,
    pos, size, parsed, j, r, ret, trunc, peek, badlen, oob,
    values, cidx, want, vi, found, format, stored, strdesc, ascii>>

cursorVars == <<cpos, csize, i, pos, size, parsed, j>>

flagVars == <<trunc, peek, badlen, oob>>

heapVars == <<live, freed, dfreed>>

valueVars == <<want, vi, found>>

\* what the decoders and the retrievals by index never touch
pureVars == <<values, format, stored, strdesc, ascii>>

\* ------------------------------------------------------------ heap

Id(k, ii, a, e) == [k |-> k, i |-> ii, a |-> a, j |-> e]

ConfigId == Id("config", 0, 0, 0)

BufId == Id("buf", 0, 0, 0)

\* free() called on each allocation of ids in turn
RECURSIVE FreeAll(_, _)
FreeAll(h, ids) ==
  IF ids = <<>> THEN h
  ELSE LET id == Head(ids)
           h1 == IF id \in h.live
                 THEN [live |-> h.live \ {id}, freed |-> h.freed \cup {id},
                       dfreed |-> h.dfreed]
                 ELSE [h EXCEPT !.dfreed = @ \cup {id}]
       IN  FreeAll(h1, Tail(ids))

Heap == [live |-> live, freed |-> freed, dfreed |-> dfreed]

\* ------------------------------------------------------------ teardown

\* each teardown routine is the sequence of free() calls it makes

clear_endpoint(endpoint, id) == IF endpoint.extra.p THEN <<id>> ELSE <<>>

clear_altsetting(ifp, ii, a) ==
  (IF ifp.extra.p THEN <<Id("iextra", ii, a, 0)>> ELSE <<>>)
  \o (IF ifp.endpoint.p
      THEN Concat([e \in 1..ifp.bNumEndpoints |->
                     clear_endpoint(ifp.endpoint.b[e], Id("eextra", ii, a, e))])
           \o <<Id("endpoint", ii, a, 0)>>
      ELSE <<>>)

clear_interface(interface, ii) ==
  IF interface.altsetting.p
  THEN Concat([a \in 1..interface.num_altsetting |->
                 clear_altsetting(interface.altsetting.b[a], ii, a)])
       \o <<Id("altsetting", ii, 0, 0)>>
  ELSE <<>>

clear_configuration(cfg) ==
  (IF cfg.interface.p
   THEN Concat([n \in 1..cfg.bNumInterfaces |->
                  clear_interface(cfg.interface.b[n], n - 1)])
        \o <<Id("interface", 0, 0, 0)>>
   ELSE <<>>)
  \o (IF cfg.extra.p THEN <<Id("cextra", 0, 0, 0)>> ELSE <<>>)

\* ------------------------------------------------------------ skip scans

TopLevelTypes ==
  {LIBUSB_DT_ENDPOINT, LIBUSB_DT_INTERFACE, LIBUSB_DT_CONFIG, LIBUSB_DT_DEVICE}

\* The loop that skips class and vendor specific descriptors, from offset p
\* with s bytes left.  checked is TRUE for the configuration decoder's loop,
\* which also rejects a bLength above the bytes left.  The result is the
\* cursor where the loop stops, whether it failed, and what it met:
\* trunc, a rejected or skipped header with bLength above the bytes left;
\* peek, an interface or endpoint header with such a bLength at which the
\* loop stopped; bad, a bLength below 2.
\* a length test that lets a 1-byte descriptor through
TooShortBelowOne(bLength) == bLength < 1

\* a length test that lets every declared length through
TooShortNever(bLength) == FALSE

\* the skip loops' test of a declared length
TooShort(bLength) == bLength < DESC_HEADER_LENGTH

RECURSIVE SkipScan(_, _, _)
SkipScan(p, s, checked) ==
  IF s < DESC_HEADER_LENGTH
  THEN [pos |-> p, size |-> s, err |-> FALSE, trunc |-> FALSE, peek |-> FALSE,
        bad |-> FALSE]
  ELSE LET header == usbi_parse_descriptor(SubSeq(buf, p + 1, p + 2), <<"b", "b">>)
           bLength == header[1]
           bDescriptorType == header[2]
       IN  IF (checked /\ bLength > s) \/ TooShort(bLength)
           THEN [pos |-> p, size |-> s, err |-> TRUE, trunc |-> bLength > s,
                 peek |-> FALSE, bad |-> bLength < DESC_HEADER_LENGTH]
           ELSE IF bDescriptorType \in TopLevelTypes
           THEN [pos |-> p, size |-> s, err |-> FALSE, trunc |-> FALSE,
                 peek |-> bLength > s
                          /\ bDescriptorType \in {LIBUSB_DT_INTERFACE,
                                                  LIBUSB_DT_ENDPOINT},
                 bad |-> bLength < DESC_HEADER_LENGTH]
           ELSE LET rest == SkipScan(p + bLength, s - bLength, checked)
                IN  [rest EXCEPT !.trunc = @ \/ bLength > s,
                                 !.bad = @ \/ bLength < DESC_HEADER_LENGTH]

\* memcpy of len bytes from offset begin of the buffer
CopyBytes(begin, len) ==
  [k \in 1..len |-> IF begin + k <= Len(buf) THEN buf[begin + k] ELSE Junk]

\* ------------------------------------------------------------ endpoint decoder

ZeroEndpoint ==
  [bLength |-> 0, bDescriptorType |-> 0, bEndpointAddress |-> 0, bmAttributes |-> 0,
   wMaxPacketSize |-> 0, bInterval |-> 0, bRefresh |-> 0, bSynchAddress |-> 0,
   extra |-> NULL, extra_length |-> 0]

\* the typed fields parse_endpoint stores for a header of length bLength at p
EndpointFields(endpoint, p, bLength) ==
  IF bLength >= ENDPOINT_AUDIO_DESC_LENGTH
  THEN LET v == usbi_parse_descriptor(SubSeq(buf, p + 1, p + 9),
                                      <<"b", "b", "b", "b", "w", "b", "b", "b">>)
       IN  [endpoint EXCEPT !.bLength = v[1], !.bDescriptorType = v[2],
              !.bEndpointAddress = v[3], !.bmAttributes = v[4],
              !.wMaxPacketSize = v[5], !.bInterval = v[6], !.bRefresh = v[7],
              !.bSynchAddress = v[8]]
  ELSE IF bLength >= ENDPOINT_DESC_LENGTH
  THEN LET v == usbi_parse_descriptor(SubSeq(buf, p + 1, p + 7),
                                      <<"b", "b", "b", "b", "w", "b">>)
       IN  [endpoint EXCEPT !.bLength = v[1], !.bDescriptorType = v[2],
              !.bEndpointAddress = v[3], !.bmAttributes = v[4],
              !.wMaxPacketSize = v[5], !.bInterval = v[6]]
  ELSE endpoint

\* what parse_endpoint leaves: the return value, the slot, whether the
\* extra blob was allocated, and what the trailing scan sc met
EndpointResult(rv, endpoint, alloc, sc) ==
  [r |-> rv, endpoint |-> endpoint, alloc |-> alloc, trunc |-> sc.trunc,
   peek |-> sc.peek, bad |-> sc.bad]

\* a count of the endpoint header alone
ConsumedHeader(bLength, begin, sc) == bLength

\* parsed, as parse_endpoint returns it: the header and what the scan skipped
Consumed(bLength, begin, sc) == bLength + (sc.pos - begin)

\* an EndpointExtra that records parsed as the blob's length
EndpointExtraParsed(ep, bLength, begin, sc, mem) ==
  IF sc.err THEN EndpointResult(0 - 1, ep, FALSE, sc)
  ELSE IF sc.pos = begin
  THEN EndpointResult(bLength, [ep EXCEPT !.extra = NULL, !.extra_length = 0],
                      FALSE, sc)
  ELSE IF ~mem
  THEN EndpointResult(LIBUSB_ERROR_NO_MEM,
                      [ep EXCEPT !.extra = NULL, !.extra_length = 0], FALSE, sc)
  ELSE EndpointResult(Consumed(bLength, begin, sc),
                      [ep EXCEPT !.extra = Ptr(CopyBytes(begin, sc.pos - begin)),
                                 !.extra_length = Consumed(bLength, begin, sc)],
                      TRUE, sc)

\* parse_endpoint from the end of its skip scan sc, which began at begin
EndpointExtra(ep, bLength, begin, sc, mem) ==
  IF sc.err THEN EndpointResult(0 - 1, ep, FALSE, sc)
  ELSE IF sc.pos = begin
  THEN EndpointResult(bLength, [ep EXCEPT !.extra = NULL, !.extra_length = 0],
                      FALSE, sc)
  ELSE IF ~mem
  THEN EndpointResult(LIBUSB_ERROR_NO_MEM,
                      [ep EXCEPT !.extra = NULL, !.extra_length = 0], FALSE, sc)
  ELSE EndpointResult(Consumed(bLength, begin, sc),
                      [ep EXCEPT !.extra = Ptr(CopyBytes(begin, sc.pos - begin)),
                                 !.extra_length = sc.pos - begin],
                      TRUE, sc)

NoScan == [trunc |-> FALSE, peek |-> FALSE, bad |-> FALSE]

\* parse_endpoint on the slot endpoint, at offset p with s bytes left.
\* header is the 2-byte header as read at p; mem tells whether malloc
\* succeeds.
parse_endpoint(endpoint, header, p, s, mem) ==
  IF header[1] > s
  THEN EndpointResult(0 - 1, endpoint, FALSE, [NoScan EXCEPT !.trunc = TRUE])
  ELSE IF header[2] # LIBUSB_DT_ENDPOINT
  THEN EndpointResult(0, endpoint, FALSE, NoScan)
  ELSE EndpointExtra(EndpointFields(endpoint, p, header[1]), header[1],
                     p + header[1], SkipScan(p + header[1], s - header[1], FALSE),
                     mem)

\* ------------------------------------------------------------ retrieval

ZeroInterface == [altsetting |-> NULL, num_altsetting |-> 0]

NoConfig ==
  [bLength |-> 0, bDescriptorType |-> 0, wTotalLength |-> 0, bNumInterfaces |-> 0,
   bConfigurationValue |-> 0, iConfiguration |-> 0, bmAttributes |-> 0,
   MaxPower |-> 0, interface |-> NULL, extra |-> NULL, extra_length |-> 0]

\* no by-value retrieval is in progress
NoValue == 0 - 1

NoFormat == [source |-> <<>>, descriptor |-> <<>>]

NoStored == [vals |-> <<>>, offs |-> <<>>, sp |-> 0, dp |-> 0]

NoString == [tbuf |-> <<>>, length |-> 0]

NoAscii == [data |-> <<>>, r |-> 0]

\* the state before any call, but for the position in the code, the device
\* and the inputs of the codec and of the ASCII reduction
Fresh ==
  /\ dev = NoDevice
  /\ ncalls = 0
  /\ buf = <<>>
  /\ config = NoConfig
  /\ live = {}
  /\ freed = {}
  /\ dfreed = {}
  /\ cpos = 0
  /\ csize = 0
  /\ i = 0
  /\ pos = 0
  /\ size = 0
  /\ parsed = 0
  /\ j = 0
  /\ r = 0
  /\ ret = "none"
  /\ trunc = FALSE
  /\ peek = FALSE
  /\ badlen = FALSE
  /\ oob = FALSE
  /\ cidx = 0
  /\ want = NoValue
  /\ vi = 0
  /\ found = 0
  /\ stored = NoStored
  /\ ascii = NoAscii

Init ==
  /\ pc = "idle"
  /\ values = [n \in 1..NumConfigurations |-> 1]
  /\ format = NoFormat
  /\ strdesc = NoString
  /\ Fresh

\* the configuration descriptor the backend serves for index idx of a device
\* whose descriptors are d: its bConfigurationValue is the device's
ConfigBytes(d, idx) == [DeviceBytes(d) EXCEPT ![6] = values[idx + 1]]

\* what a backend call returns: an error code or success
BackendResults == {LIBUSB_ERROR_IO, 0}

\* a backend that is never seen to fail
BackendFailedNever(rv) == FALSE

\* the entry points' test of a backend call's return value
BackendFailed(rv) == rv < 0

\* the malloc of the config struct that opens both retrievals
AllocConfig ==
  /\ \E mem \in BOOLEAN :
       IF mem
       THEN /\ live' = live \cup {ConfigId}
            /\ pc' = "probe"
            /\ ret' = ret
       ELSE /\ live' = live
            /\ pc' = "done"
            /\ ret' = "NULL"
  /\ UNCHANGED <<dev, ncalls, buf, config, freed, dfreed, cursorVars, r, flagVars,
                 pureVars>>

\* libusb_get_active_config_descriptor, up to the first backend call; the
\* backend serves the configuration that is active
libusb_get_active_config_descriptor ==
  /\ pc = "idle"
  /\ AllocConfig
  /\ \E active \in 0..(Len(values) - 1) : cidx' = active
  /\ UNCHANGED valueVars

\* libusb_get_config_descriptor(dev, config_index), up to the first backend
\* call
GetConfigDescriptor(config_index) ==
  IF config_index >= Len(values)
  THEN /\ pc' = "done"
       /\ ret' = "NULL"
       /\ UNCHANGED <<dev, ncalls, buf, config, heapVars, cursorVars, r, flagVars,
                      pureVars, cidx>>
  ELSE /\ AllocConfig
       /\ cidx' = config_index

libusb_get_config_descriptor ==
  /\ pc = "idle"
  /\ \E config_index \in 0..Len(values) : GetConfigDescriptor(config_index)
  /\ UNCHANGED valueVars

\* a match test that looks one byte too early, at bNumInterfaces
ValueMatchesNumInterfaces(tmp, bConfigurationValue) == tmp[5] = bConfigurationValue

\* by_value's test of the probed header tmp: tmp[5] == bConfigurationValue
ValueMatches(tmp, bConfigurationValue) == tmp[6] = bConfigurationValue

\* libusb_get_config_descriptor_by_value, up to its loop
libusb_get_config_descriptor_by_value ==
  /\ pc = "idle"
  /\ \E bConfigurationValue \in 1..MaxConfigValue : want' = bConfigurationValue
  /\ vi' = 0
  /\ found' = 0 - 1
  /\ pc' = "value_loop"
  /\ UNCHANGED <<dev, ncalls, buf, config, heapVars, cursorVars, r, ret, flagVars,
                 pureVars, cidx>>

\* the descriptors of a device that is asked for a configuration by value
ValueDevices == {d \in Devices : Len(d.chunks) <= 1 /\ d.cut = 0 /\ d.nif = 1}

\* by_value: one pass of the loop, the 6-byte probe of configuration i
by_value_probe ==
  /\ pc = "value_loop"
  /\ IF vi >= Len(values)
     THEN /\ pc' = "value_end"
          /\ UNCHANGED <<ncalls, ret, vi, found>>
     ELSE /\ ncalls' = ncalls + 1
          /\ \E rv \in BackendResults, d \in ValueDevices :
               IF BackendFailed(rv)
               THEN /\ ret' = "NULL"
                    /\ pc' = "done"
                    /\ UNCHANGED <<vi, found>>
               ELSE IF ValueMatches(SubSeq(ConfigBytes(d, vi), 1, 6), want)
               THEN /\ found' = 1
                    /\ pc' = "value_end"
                    /\ UNCHANGED <<ret, vi>>
               ELSE /\ vi' = vi + 1
                    /\ UNCHANGED <<pc, ret, found>>
  /\ UNCHANGED <<dev, buf, config, heapVars, cursorVars, r, flagVars, pureVars, cidx,
                 want>>

\* by_value past its loop: absent if (!found), else the retrieval by index i
by_value_end ==
  /\ pc = "value_end"
  /\ IF found = 0
     THEN /\ ret' = "NULL"
          /\ pc' = "done"
          /\ UNCHANGED <<dev, ncalls, buf, config, heapVars, cursorVars, r, flagVars,
                         pureVars, cidx>>
     ELSE GetConfigDescriptor(vi)
  /\ UNCHANGED valueVars

\* the err label of both retrievals: free(config), and buf when allocated
RetrievalErr ==
  LET h == FreeAll(Heap, <<ConfigId>> \o (IF BufId \in live THEN <<BufId>> ELSE <<>>))
  IN  /\ live' = h.live
      /\ freed' = h.freed
      /\ dfreed' = h.dfreed
      /\ ret' = "NULL"
      /\ pc' = "done"

\* the 8-byte probe and the malloc of the buffer it sizes; devices are the
\* descriptors the backend may hold
BackendProbeOf(devices) ==
  /\ pc = "probe"
  /\ ncalls' = ncalls + 1
  /\ \E rv \in BackendResults, mem \in BOOLEAN, d \in devices :
       IF BackendFailed(rv)
       THEN /\ RetrievalErr
            /\ UNCHANGED <<dev, config>>
       ELSE LET tmp == SubSeq(ConfigBytes(d, cidx), 1, 8)
                v == usbi_parse_descriptor(tmp, <<"b", "b", "w">>)
            IN  /\ dev' = d
                /\ config' = [config EXCEPT !.bLength = v[1],
                                            !.bDescriptorType = v[2],
                                            !.wTotalLength = v[3]]
                /\ IF mem
                   THEN /\ live' = live \cup {BufId}
                        /\ pc' = "fetch"
                        /\ UNCHANGED <<freed, dfreed, ret>>
                   ELSE RetrievalErr
  /\ UNCHANGED <<buf, cursorVars, r, flagVars, pureVars, cidx, valueVars>>

BackendProbe == BackendProbeOf(Devices)

\* the fetch of wTotalLength bytes into the buffer, which the backend fills
\* when it succeeds
BackendFetch ==
  /\ pc = "fetch"
  /\ ncalls' = ncalls + 1
  /\ \E rv \in BackendResults :
       IF BackendFailed(rv)
       THEN /\ RetrievalErr
            /\ buf' = buf
       ELSE /\ buf' = IF rv >= 0 THEN ConfigBytes(dev, cidx) ELSE buf
            /\ pc' = "parse"
            /\ UNCHANGED <<heapVars, ret>>
  /\ UNCHANGED <<dev, config, cursorVars, r, flagVars, pureVars, cidx, valueVars>>

\* ------------------------------------------------------------ configuration decoder

\* parse_configuration up to its interface loop
parse_configuration_header ==
  /\ pc = "parse"
  /\ LET v == usbi_parse_descriptor(SubSeq(buf, 1, 9),
                                    <<"b", "b", "w", "b", "b", "b", "b", "b">>)
         cfg == [config EXCEPT !.bLength = v[1], !.bDescriptorType = v[2],
                   !.wTotalLength = v[3], !.bNumInterfaces = v[4],
                   !.bConfigurationValue = v[5], !.iConfiguration = v[6],
                   !.bmAttributes = v[7], !.MaxPower = v[8]]
     IN  IF cfg.bNumInterfaces > USB_MAXINTERFACES
         THEN /\ config' = cfg
              /\ r' = LIBUSB_ERROR_IO
              /\ pc' = "return"
              /\ UNCHANGED <<live, cpos, csize, i>>
         ELSE \E mem \in BOOLEAN :
                IF ~mem
                THEN /\ config' = [cfg EXCEPT !.interface = NULL]
                     /\ r' = LIBUSB_ERROR_NO_MEM
                     /\ pc' = "return"
                     /\ UNCHANGED <<live, cpos, csize, i>>
                ELSE /\ config' =
                          [cfg EXCEPT
                             !.interface =
                                Ptr([n \in 1..cfg.bNumInterfaces |-> ZeroInterface]),
                             !.extra = NULL, !.extra_length = 0]
                     /\ live' = live \cup {Id("interface", 0, 0, 0)}
                     /\ cpos' = cfg.bLength
                     /\ csize' = cfg.wTotalLength - cfg.bLength
                     /\ i' = 0
                     /\ r' = r
                     /\ pc' = "cfg_loop"
  /\ UNCHANGED <<dev, ncalls, buf, freed, dfreed, pos, size, parsed, j, ret,
                 flagVars>>
  /\ UNCHANGED <<pureVars, cidx, valueVars>>

\* a parse_configuration that never reports less than nothing left
ReturnClamped == IF csize < 0 THEN 0 ELSE csize

\* what parse_configuration returns past the last interface slot: size
ReturnSize == csize

\* one pass of parse_configuration's interface loop, up to the call of
\* parse_interface; past the last slot, the return of size
parse_configuration_loop ==
  /\ pc = "cfg_loop"
  /\ IF i >= config.bNumInterfaces
     THEN /\ r' = ReturnSize
          /\ pc' = "return"
          /\ UNCHANGED <<config, live, cpos, csize, pos, size, parsed, flagVars>>
     ELSE LET sc == SkipScan(cpos, csize, TRUE)
              len == sc.pos - cpos
          IN  /\ trunc' = (trunc \/ sc.trunc)
              /\ peek' = (peek \/ sc.peek)
              /\ badlen' = (badlen \/ sc.bad)
              /\ oob' = oob
              /\ IF sc.err
                 THEN /\ r' = LIBUSB_ERROR_IO
                      /\ pc' = "cfg_err"
                      /\ UNCHANGED <<config, live, cpos, csize, pos, size, parsed>>
                 ELSE \E mem \in BOOLEAN :
                        IF len # 0 /\ config.extra_length = 0 /\ ~mem
                        THEN /\ r' = LIBUSB_ERROR_NO_MEM
                             /\ pc' = "cfg_err"
                             /\ cpos' = sc.pos
                             /\ csize' = sc.size
                             /\ UNCHANGED <<config, live, pos, size, parsed>>
                        ELSE /\ IF len # 0 /\ config.extra_length = 0
                                THEN /\ config' =
                                          [config EXCEPT
                                             !.extra = Ptr(CopyBytes(cpos, len)),
                                             !.extra_length = len,
                                             !.interface.b[i + 1].num_altsetting = 0]
                                     /\ live' = live \cup {Id("cextra", 0, 0, 0)}
                                ELSE /\ config' =
                                          [config EXCEPT
                                             !.interface.b[i + 1].num_altsetting = 0]
                                     /\ live' = live
                             /\ cpos' = sc.pos
                             /\ csize' = sc.size
                             /\ pos' = sc.pos
                             /\ size' = sc.size
                             /\ parsed' = 0
                             /\ r' = r
                             /\ pc' = "if_loop"
  /\ UNCHANGED <<dev, ncalls, buf, freed, dfreed, i, j, ret>>
  /\ UNCHANGED <<pureVars, cidx, valueVars>>

\* ------------------------------------------------------------ interface decoder

\* the interface slot parse_interface is working on, and its newest altsetting
CurInterface == config.interface.b[i + 1]

CurAlt == CurInterface.num_altsetting

CurIfp == CurInterface.altsetting.b[CurAlt]

\* the slot parse_interface fills from the 9 header bytes at offset p
InterfaceFields(p) ==
  LET v == usbi_parse_descriptor(SubSeq(buf, p + 1, p + 9),
                                 <<"b", "b", "b", "b", "b", "b", "b", "b", "b">>)
  IN  [bLength |-> v[1], bDescriptorType |-> v[2], bInterfaceNumber |-> v[3],
       bAlternateSetting |-> v[4], bNumEndpoints |-> v[5], bInterfaceClass |-> v[6],
       bInterfaceSubClass |-> v[7], bInterfaceProtocol |-> v[8], iInterface |-> v[9],
       extra |-> NULL, extra_length |-> 0, endpoint |-> NULL]

\* the interface slot old with the altsetting x in the slot realloc appended
WithAltsetting(old, x) ==
  [altsetting |-> Ptr(SubSeq(old.altsetting.b, 1, old.num_altsetting) \o <<x>>),
   num_altsetting |-> old.num_altsetting + 1]

\* what one pass of parse_interface's while loop leaves: the next position
\* in the code, the return value, the interface slot, the cursor after the
\* skip scan sc, the allocations made and what was met; read tells whether
\* the pass came to read the header that follows the scan
PassResult(next, rv, interface, ifp, sc, new, read) ==
  [pc |-> next, r |-> rv, interface |-> interface, pos |-> sc.pos, size |-> sc.size,
   parsed |-> parsed + (sc.pos - pos), new |-> new,
   trunc |-> ifp.bLength > size \/ sc.trunc, peek |-> sc.peek, bad |-> sc.bad,
   oob |-> read /\ sc.size < DESC_HEADER_LENGTH]

\* the pass from the test for an unexpected descriptor to the endpoint
\* loop; ifp is the altsetting with its extra blob, new what was allocated
AltsettingEndpoints(old, ifp, sc, new, memEp) ==
  IF sc.size >= DESC_HEADER_LENGTH
     /\ usbi_parse_descriptor(SubSeq(buf, sc.pos + 1, sc.pos + 2), <<"b", "b">>)[2]
          \in {LIBUSB_DT_CONFIG, LIBUSB_DT_DEVICE}
  THEN PassResult("cfg_after", parsed + (sc.pos - pos), WithAltsetting(old, ifp),
                  ifp, sc, new, TRUE)
  ELSE IF ifp.bNumEndpoints > USB_MAXENDPOINTS
  THEN PassResult("if_err", LIBUSB_ERROR_IO, WithAltsetting(old, ifp), ifp, sc, new, TRUE)
  ELSE IF ifp.bNumEndpoints > 0
  THEN IF ~memEp
       THEN PassResult("if_err", LIBUSB_ERROR_NO_MEM, WithAltsetting(old, ifp),
                       ifp, sc, new, TRUE)
       ELSE PassResult("ep_loop", r,
                       WithAltsetting(old,
                         [ifp EXCEPT !.endpoint =
                            Ptr([e \in 1..ifp.bNumEndpoints |-> ZeroEndpoint])]),
                       ifp, sc,
                       new \cup {Id("endpoint", i, old.num_altsetting + 1, 0)}, TRUE)
  ELSE PassResult("if_next", r, WithAltsetting(old, ifp), ifp, sc, new, TRUE)

\* the pass from the end of the skip scan sc: the copy of the skipped
\* descriptors into the extra blob
AltsettingExtra(old, ifp, sc, memExtra, memEp) ==
  IF sc.err
  THEN PassResult("if_err", LIBUSB_ERROR_IO, WithAltsetting(old, ifp), ifp, sc,
                  {Id("altsetting", i, 0, 0)}, FALSE)
  ELSE IF sc.pos = pos + ifp.bLength
  THEN AltsettingEndpoints(old, ifp, sc, {Id("altsetting", i, 0, 0)}, memEp)
  ELSE IF ~memExtra
  THEN PassResult("if_err", LIBUSB_ERROR_NO_MEM, WithAltsetting(old, ifp), ifp, sc,
                  {Id("altsetting", i, 0, 0)}, FALSE)
  ELSE AltsettingEndpoints(old,
         [ifp EXCEPT
            !.extra = Ptr(CopyBytes(pos + ifp.bLength, sc.pos - (pos + ifp.bLength))),
            !.extra_length = sc.pos - (pos + ifp.bLength)],
         sc,
         {Id("altsetting", i, 0, 0), Id("iextra", i, old.num_altsetting + 1, 0)},
         memEp)

\* the pass from the decoded header ifp: the skip over it and the scan
AltsettingScan(old, ifp, memExtra, memEp) ==
  AltsettingExtra(old, ifp, SkipScan(pos + ifp.bLength, size - ifp.bLength, FALSE),
                  memExtra, memEp)

\* One pass of parse_interface's while loop from its head to the endpoint
\* loop.  memAlt, memExtra and memEp tell whether the realloc of the
\* altsetting array, the malloc of the extra blob and the malloc of the
\* endpoint array succeed.
AltsettingPass(memAlt, memExtra, memEp) ==
  IF ~memAlt
  THEN [pc |-> "if_err", r |-> LIBUSB_ERROR_NO_MEM, interface |-> CurInterface,
        pos |-> pos, size |-> size, parsed |-> parsed, new |-> {}, trunc |-> FALSE,
        peek |-> FALSE, bad |-> FALSE, oob |-> FALSE]
  ELSE AltsettingScan(CurInterface, InterfaceFields(pos), memExtra, memEp)

\* parse_interface: the while loop's head and one altsetting, or the return
\* of parsed when fewer than INTERFACE_DESC_LENGTH bytes are left
parse_interface_altsetting ==
  /\ pc = "if_loop"
  /\ IF size < INTERFACE_DESC_LENGTH
     THEN /\ r' = parsed
          /\ pc' = "cfg_after"
          /\ UNCHANGED <<config, live, pos, size, parsed, j, flagVars>>
     ELSE \E memAlt \in BOOLEAN, memExtra \in BOOLEAN, memEp \in BOOLEAN :
            LET o == AltsettingPass(memAlt, memExtra, memEp)
            IN  /\ config' = [config EXCEPT !.interface.b[i + 1] = o.interface]
                /\ live' = live \cup o.new
                /\ pos' = o.pos
                /\ size' = o.size
                /\ parsed' = o.parsed
                /\ j' = 0
                /\ r' = o.r
                /\ pc' = o.pc
                /\ trunc' = (trunc \/ o.trunc)
                /\ peek' = (peek \/ o.peek)
                /\ badlen' = (badlen \/ o.bad)
                /\ oob' = (oob \/ o.oob)
  /\ UNCHANGED <<dev, ncalls, buf, freed, dfreed, cpos, csize, i, ret>>
  /\ UNCHANGED <<pureVars, cidx, valueVars>>

\* the 2-byte header the endpoint loop reads at buffer: the buffer's bytes
\* where there are any, and any bytes beyond its end
HeadersAt(p, s) ==
  IF s >= 2 THEN {usbi_parse_descriptor(SubSeq(buf, p + 1, p + 2), <<"b", "b">>)}
  ELSE IF s = 1 THEN {<<buf[p + 1], t>> : t \in OobBytes}
  ELSE {<<l, t>> : l \in OobBytes, t \in OobBytes}

\* parse_interface: one pass of the endpoint loop
parse_interface_endpoint ==
  /\ pc = "ep_loop"
  /\ \E header \in HeadersAt(pos, size), mem \in BOOLEAN :
       /\ oob' = (oob \/ size < DESC_HEADER_LENGTH)
       /\ IF header[1] > size
          THEN /\ r' = LIBUSB_ERROR_IO
               /\ pc' = "if_err"
               /\ trunc' = (trunc \/ size >= 1)
               /\ UNCHANGED <<config, live, pos, size, parsed, j, peek, badlen>>
          ELSE LET n == CurAlt
                   e == parse_endpoint(CurIfp.endpoint.b[j + 1], header, pos, size, mem)
               IN  /\ config' = [config EXCEPT
                                   !.interface.b[i + 1].altsetting.b[n].endpoint.b[j + 1] =
                                      e.endpoint]
                   /\ live' = live \cup (IF e.alloc
                                         THEN {Id("eextra", i, n, j + 1)}
                                         ELSE {})
                   /\ trunc' = (trunc \/ e.trunc)
                   /\ peek' = (peek \/ e.peek)
                   /\ badlen' = (badlen \/ e.bad)
                   /\ r' = e.r
                   /\ IF e.r < 0
                      THEN /\ pc' = "if_err"
                           /\ UNCHANGED <<pos, size, parsed, j>>
                      ELSE /\ pos' = pos + e.r
                           /\ parsed' = parsed + e.r
                           /\ size' = size - e.r
                           /\ j' = j + 1
                           /\ pc' = IF j + 1 < CurIfp.bNumEndpoints
                                    THEN "ep_loop" ELSE "if_next"
  /\ UNCHANGED <<dev, ncalls, buf, freed, dfreed, cpos, csize, i, ret>>
  /\ UNCHANGED <<pureVars, cidx, valueVars>>

\* a test that takes every interface descriptor for an alternate setting
IsInterface(ifp) == ifp.bDescriptorType = LIBUSB_DT_INTERFACE

\* whether the header ifp is an alternate setting of the interface at hand
IsAlternate(ifp) ==
  ifp.bDescriptorType = LIBUSB_DT_INTERFACE /\ ifp.bAlternateSetting # 0

\* parse_interface: the test that the next descriptor is an alternate
\* setting of this interface
parse_interface_next ==
  /\ pc = "if_next"
  /\ LET ifp == InterfaceFields(pos)
     IN  IF size < LIBUSB_DT_INTERFACE_SIZE \/ ~IsAlternate(ifp)
         THEN /\ r' = parsed
              /\ pc' = "cfg_after"
         ELSE /\ r' = r
              /\ pc' = "if_loop"
  /\ UNCHANGED <<dev, ncalls, buf, config, heapVars, cursorVars, ret, flagVars>>
  /\ UNCHANGED <<pureVars, cidx, valueVars>>

\* parse_interface: the err label
parse_interface_err ==
  /\ pc = "if_err"
  /\ LET h == FreeAll(Heap, clear_interface(CurInterface, i))
     IN  /\ live' = h.live
         /\ freed' = h.freed
         /\ dfreed' = h.dfreed
  /\ pc' = "cfg_after"
  /\ UNCHANGED <<dev, ncalls, buf, config, cursorVars, r, ret, flagVars>>
  /\ UNCHANGED <<pureVars, cidx, valueVars>>

\* ------------------------------------------------------------ back in the callers

\* parse_configuration: after parse_interface returned r
parse_configuration_after ==
  /\ pc = "cfg_after"
  /\ IF r < 0
     THEN /\ pc' = "cfg_err"
          /\ UNCHANGED <<cpos, csize, i>>
     ELSE /\ cpos' = cpos + r
          /\ csize' = csize - r
          /\ i' = i + 1
          /\ pc' = "cfg_loop"
  /\ UNCHANGED <<dev, ncalls, buf, config, heapVars, pos, size, parsed, j, r,
                 ret, flagVars>>
  /\ UNCHANGED <<pureVars, cidx, valueVars>>

\* the outcomes of a run of free() calls: where a call frees what is no
\* longer live the process may also be aborted by the allocator
FreeOutcome(ids, next) ==
  LET h == FreeAll(Heap, ids)
  IN  /\ live' = h.live
      /\ freed' = h.freed
      /\ dfreed' = h.dfreed
      /\ \E abort \in (IF h.dfreed # dfreed THEN BOOLEAN ELSE {FALSE}) :
           pc' = IF abort THEN "abort" ELSE next

\* parse_configuration: the err label
parse_configuration_err ==
  /\ pc = "cfg_err"
  /\ FreeOutcome(clear_configuration(config), "return")
  /\ UNCHANGED <<dev, ncalls, buf, config, cursorVars, r, ret, flagVars>>
  /\ UNCHANGED <<pureVars, cidx, valueVars>>

\* both retrievals, after parse_configuration returned r
RetrievalReturn ==
  /\ pc = "return"
  /\ IF r < 0
     THEN RetrievalErr
     ELSE /\ ret' = "config"
          /\ pc' = "done"
          /\ UNCHANGED heapVars
  /\ UNCHANGED <<dev, ncalls, buf, config, cursorVars, r, flagVars>>
  /\ UNCHANGED <<pureVars, cidx, valueVars>>

\* libusb_free_config_descriptor on what the retrieval returned
libusb_free_config_descriptor ==
  /\ pc = "done"
  /\ IF ret = "NULL"
     THEN /\ pc' = "released"
          /\ UNCHANGED heapVars
     ELSE FreeOutcome(clear_configuration(config) \o <<ConfigId>>, "released")
  /\ UNCHANGED <<dev, ncalls, buf, config, cursorVars, r, ret, flagVars>>
  /\ UNCHANGED <<pureVars, cidx, valueVars>>

Next ==
  \/ libusb_get_active_config_descriptor
  \/ libusb_get_config_descriptor
  \/ BackendProbe
  \/ BackendFetch
  \/ parse_configuration_header
  \/ parse_configuration_loop
  \/ parse_interface_altsetting
  \/ parse_interface_endpoint
  \/ parse_interface_next
  \/ parse_interface_err
  \/ parse_configuration_after
  \/ parse_configuration_err
  \/ RetrievalReturn
  \/ libusb_free_config_descriptor

Spec == Init /\ [][Next]_vars

\* ------------------------------------------------------------ retrieval by value

\* a device with up to MaxConfigurations configurations
InitByValue ==
  /\ pc = "idle"
  /\ values \in UNION {[1..n -> 1..MaxConfigValue] : n \in 0..MaxConfigurations}
  /\ format = NoFormat
  /\ strdesc = NoString
  /\ Fresh

NextByValue ==
  \/ libusb_get_active_config_descriptor
  \/ libusb_get_config_descriptor
  \/ libusb_get_config_descriptor_by_value
  \/ by_value_probe
  \/ by_value_end
  \/ BackendProbeOf(ValueDevices)
  \/ BackendFetch
  \/ parse_configuration_header
  \/ parse_configuration_loop
  \/ parse_interface_altsetting
  \/ parse_interface_endpoint
  \/ parse_interface_next
  \/ parse_interface_err
  \/ parse_configuration_after
  \/ parse_configuration_err
  \/ RetrievalReturn
  \/ libusb_free_config_descriptor

SpecByValue == InitByValue /\ [][NextByValue]_vars

\* ------------------------------------------------------------ the codec alone

FormatChars == {"b", "w", "d", "W", "D"}

Formats == UNION {[1..n -> FormatChars] : n \in 1..MaxFormat}

\* source bytes enough for the longest format
CodecSource == [k \in 1..(4 * MaxFormat) |-> k]

InitCodec ==
  /\ pc = "codec"
  /\ values = <<>>
  /\ format \in [source : {CodecSource}, descriptor : Formats]
  /\ strdesc = NoString
  /\ Fresh

\* usbi_parse_descriptor(source, descriptor, dest) with dest on a 4-byte
\* boundary
CodecCall ==
  /\ pc = "codec"
  /\ stored' = usbi_parse_from(format.source, format.descriptor, 0, 0)
  /\ pc' = "codec_done"
  /\ UNCHANGED <<dev, ncalls, buf, config, heapVars, cursorVars, r, ret, flagVars,
                 values, cidx, valueVars, format, strdesc, ascii>>

SpecCodec == InitCodec /\ [][CodecCall]_vars

\* ------------------------------------------------------------ ASCII reduction

\* libusb.h (not part of the sources at hand)
LIBUSB_DT_STRING == 3

\* UTF-16 code units, low byte first: 'A' and U+2042
CodeUnits == {<<65, 0>>, <<66, 32>>}

UnitSeqs == UNION {[1..n -> CodeUnits] : n \in 0..MaxUnits}

\* string descriptors a device may return: a declared length, a type and
\* the code units
StringDescriptors ==
  {<<bLength, bDescriptorType>> \o Concat(units) :
     bLength \in {2, 4, 5, 6}, bDescriptorType \in {LIBUSB_DT_STRING, LIBUSB_DT_INTERFACE},
     units \in UnitSeqs}

\* what a byte of tbuf beyond the bytes the device returned may hold
StaleBytes == {0, 255}

\* tbuf[k], of which the device filled the bytes of t
ByteAt(t, k, stale) == IF k + 1 <= Len(t) THEN t[k + 1] ELSE stale

\* a reduction that keeps the low byte of every code unit
AsciiLowByte(low, high) == low

\* the output byte of one code unit
AsciiByte(low, high) == IF high # 0 THEN 63 ELSE low

\* the loop of libusb_get_string_descriptor_ascii from si with data written
\* so far
RECURSIVE AsciiLoop(_, _, _, _, _)
AsciiLoop(t, length, si, data, stale) ==
  IF si >= t[1] \/ Len(data) >= length - 1
  THEN data
  ELSE AsciiLoop(t, length, si + 2,
                 Append(data, AsciiByte(ByteAt(t, si, stale), ByteAt(t, si + 1, stale))),
                 stale)

InitString ==
  /\ pc = "string"
  /\ values = <<>>
  /\ format = NoFormat
  /\ strdesc \in [tbuf : StringDescriptors, length : 1..MaxCapacity]
  /\ Fresh

\* libusb_get_string_descriptor_ascii: the request for the language ids
StringLangid ==
  /\ pc = "string"
  /\ \E rv \in {LIBUSB_ERROR_IO, 2, 4} :
       IF rv < 0
       THEN ascii' = [data |-> <<>>, r |-> rv] /\ pc' = "string_done"
       ELSE IF rv < 4
       THEN ascii' = [data |-> <<>>, r |-> LIBUSB_ERROR_IO] /\ pc' = "string_done"
       ELSE ascii' = ascii /\ pc' = "string_fetch"
  /\ UNCHANGED <<dev, ncalls, buf, config, heapVars, cursorVars, r, ret, flagVars,
                 values, cidx, valueVars, format, stored, strdesc>>

\* libusb_get_string_descriptor_ascii: the request for the string and its
\* reduction into data
StringFetch ==
  /\ pc = "string_fetch"
  /\ \E rv \in {LIBUSB_ERROR_IO, Len(strdesc.tbuf)}, stale \in StaleBytes :
       LET tbuf == strdesc.tbuf
       IN  IF rv < 0
           THEN ascii' = [data |-> <<>>, r |-> rv]
           ELSE IF tbuf[2] # LIBUSB_DT_STRING \/ tbuf[1] > rv
           THEN ascii' = [data |-> <<>>, r |-> LIBUSB_ERROR_IO]
           ELSE LET data == AsciiLoop(tbuf, strdesc.length, 2, <<>>, stale)
                IN  ascii' = [data |-> Append(data, 0), r |-> Len(data)]
  /\ pc' = "string_done"
  /\ UNCHANGED <<dev, ncalls, buf, config, heapVars, cursorVars, r, ret, flagVars,
                 values, cidx, valueVars, format, stored, strdesc>>

NextString == StringLangid \/ StringFetch

SpecString == InitString /\ [][NextString]_vars

\* ------------------------------------------------------------ claims

\* the retrieval returned a tree
Returned == pc = "done" /\ ret = "config"

\* the retrieval returned absent
Failed == pc = "done" /\ ret = "NULL"

\* C1: whenever a configuration retrieval returns absent, every allocation
\* made during the call has been released: the live allocations after the
\* call are those before it, which are none.
C1_AbsentLeavesNoAllocation == Failed => live = {}

\* C2: on every failure path of the decoders no allocation is released more
\* than once: while no tree has been returned, free() was never called on an
\* allocation that was not live.
C2_NoDoubleFree == ret # "config" => dfreed = {}

\* C3 as stated: in no returned tree's decoding was a descriptor read whose
\* bLength exceeded the bytes remaining, be it one the decoders consumed or
\* one at which a skip scan stopped.
C3_OverlongReadFails == Returned => ~(trunc \/ peek)

\* C3, amended: when a descriptor the decoders consume (an interface header,
\* an endpoint header, a skipped class or vendor descriptor) declares a
\* bLength above the bytes remaining, parse_configuration returns a negative
\* value and the retrieval returns absent, never a tree.
C3_OverlongConsumedFails ==
  /\ (pc = "return" /\ trunc) => r < 0
  /\ (pc \in {"done", "released"} /\ trunc) => ret = "NULL"

\* C3 witness: absent was returned after a consumed bLength overran the
\* buffer and parse_configuration's remaining count went negative.
C3_Witness == Failed /\ trunc /\ csize < 0 /\ r = csize

\* ---- the returned tree

\* the alternate settings of every interface slot of the tree
AllAltsettings ==
  UNION {{config.interface.b[n].altsetting.b[a] :
            a \in 1..config.interface.b[n].num_altsetting} :
         n \in 1..Len(config.interface.b)}

\* the endpoint slots of every alternate setting of the tree
AllEndpoints ==
  UNION {{ifp.endpoint.b[e] : e \in 1..Len(ifp.endpoint.b)} : ifp \in AllAltsettings}

\* the nine header bytes an alternate setting was decoded from
HeaderOf(ifp) ==
  <<ifp.bLength, ifp.bDescriptorType, ifp.bInterfaceNumber, ifp.bAlternateSetting,
    ifp.bNumEndpoints, ifp.bInterfaceClass, ifp.bInterfaceSubClass,
    ifp.bInterfaceProtocol, ifp.iInterface>>

\* ---- well-formed configurations

\* The descriptors after the configuration header form, from index k on,
\* the rest of a well-formed stream: ifs interfaces have begun and the
\* alternate setting at hand still owes need endpoints.
RECURSIVE WellFormedFrom(_, _, _, _)
WellFormedFrom(chunks, k, ifs, need) ==
  IF k > Len(chunks) THEN [ok |-> need = 0, ifs |-> ifs]
  ELSE LET c == chunks[k]
       IN  CASE c = "CS" -> WellFormedFrom(chunks, k + 1, ifs, need)
             [] c = "EP" ->
                  IF need > 0 THEN WellFormedFrom(chunks, k + 1, ifs, need - 1)
                  ELSE [ok |-> FALSE, ifs |-> ifs]
             [] c \in {"IF00", "IF01"} ->
                  IF need = 0 THEN WellFormedFrom(chunks, k + 1, ifs + 1, KindNumEp(c))
                  ELSE [ok |-> FALSE, ifs |-> ifs]
             [] c \in {"IF10", "IF11", "IFlong"} ->
                  IF need = 0 /\ ifs > 0
                  THEN WellFormedFrom(chunks, k + 1, ifs, KindNumEp(c))
                  ELSE [ok |-> FALSE, ifs |-> ifs]
             [] OTHER -> [ok |-> FALSE, ifs |-> ifs]

\* the device serves a well-formed configuration: the header, then for each
\* of its bNumInterfaces >= 1 interfaces the alternate settings, each with
\* its declared endpoints, class or vendor runs in between, nothing missing
WellFormed(d) ==
  LET w == WellFormedFrom(d.chunks, 1, 0, 0)
  IN  d.cut = 0 /\ d.nif >= 1 /\ w.ok /\ w.ifs = d.nif

\* 09 02 12 00 01 01 00 80 32 | 09 04 00 00 00 FF 00 00 00
Scenario18 == [chunks |-> <<"IF00">>, nif |-> 1, cut |-> 0]

C5_TooManyEndpointsFails ==
  \A ifp \in AllAltsettings :
    ifp.bNumEndpoints > USB_MAXENDPOINTS => ~ifp.endpoint.p /\ ~Returned

\* C6: in every returned tree each alternate setting declaring n endpoints
\* has exactly n endpoint slots, in an allocated array when n > 0.
C6_EndpointSlotsAsDeclared ==
  Returned =>
    \A ifp \in AllAltsettings :
      /\ Len(ifp.endpoint.b) = ifp.bNumEndpoints
      /\ ifp.bNumEndpoints > 0 => ifp.endpoint.p

\* C7: in every returned tree each of the bNumInterfaces Interface entries
\* holds at least one alternate setting.
C7_EveryInterfaceHasAltsetting ==
  Returned =>
    /\ Len(config.interface.b) = config.bNumInterfaces
    /\ \A n \in 1..config.bNumInterfaces :
         /\ config.interface.b[n].num_altsetting >= 1
         /\ config.interface.b[n].altsetting.p

\* C8: when a skip scan examines, with at least 2 bytes remaining, a
\* descriptor whose declared length is below 2, decoding fails with a
\* negative code and no tree is returned.
C8_ShortLengthFails ==
  /\ (pc = "return" /\ badlen) => r < 0
  /\ (pc \in {"done", "released"} /\ badlen) => ret = "NULL"

\* C8 witness: absent returned after a scan met a declared length below 2.
C8_Witness == Failed /\ badlen /\ r < 0

\* C9: two consecutive interface descriptors, the second with a non-zero
\* bAlternateSetting, decode to one Interface entry holding exactly those
\* two alternate settings in stream order; an interface descriptor with
\* bAlternateSetting = 0 that follows starts the next Interface entry.
C9_AlternatesShareEntry ==
  (/\ Returned
   /\ Len(dev.chunks) >= 2
   /\ dev.chunks[1] = "IF00"
   /\ dev.chunks[2] = "IF10"
   /\ dev.nif >= 1
   /\ (Len(dev.chunks) = 2 => dev.cut = 0)) =>
    LET first == config.interface.b[1]
    IN  /\ first.num_altsetting >= 2
        /\ HeaderOf(first.altsetting.b[1]) = ChunkBytes("IF00", 0)
        /\ HeaderOf(first.altsetting.b[2]) = ChunkBytes("IF10", 0)
        /\ (Len(dev.chunks) = 2 \/ KindAlt(dev.chunks[3]) = 0) =>
             first.num_altsetting = 2
        /\ (/\ Len(dev.chunks) = 3
            /\ dev.chunks[3] \in {"IF00", "IF01"}
            /\ dev.cut = 0
            /\ dev.nif >= 2) =>
             /\ config.interface.b[2].num_altsetting >= 1
             /\ HeaderOf(config.interface.b[2].altsetting.b[1])
                  = ChunkBytes(dev.chunks[3], 1)

\* C9 witness: the tree of a stream of two alternate settings of interface 0
\* followed by interface 1.
C9_Witness ==
  Returned /\ dev = [chunks |-> <<"IF00", "IF10", "IF00">>, nif |-> 2, cut |-> 0]

\* an extra blob is absent exactly when its recorded length is 0, and holds
\* exactly that many bytes
ExtraOk(x) ==
  /\ x.extra.p <=> x.extra_length # 0
  /\ Len(x.extra.b) = x.extra_length

\* C10: in every returned tree the extra blob of the configuration, of every
\* alternate setting and of every endpoint slot is absent if and only if
\* its extra_length is 0, and when present holds exactly extra_length bytes.
C10_ExtraBlobsConsistent ==
  Returned =>
    /\ ExtraOk(config)
    /\ \A ifp \in AllAltsettings : ExtraOk(ifp)
    /\ \A ep \in AllEndpoints : ExtraOk(ep)

\* C10 witness: a returned tree with a class descriptor kept as the blob of
\* an endpoint slot.
C10_Witness ==
  /\ Returned
  /\ \E ep \in AllEndpoints : ep.extra.p /\ ep.extra_length = 3

\* ---- retrieval by value

\* a retrieval by value is in progress or has ended
ByValue == want # NoValue

\* the configuration indexes whose bConfigurationValue is the requested one
Matching == {n \in 0..(Len(values) - 1) : values[n + 1] = want}

\* where a retrieval stands between its first backend call and its return
FetchPcs == {"probe", "fetch"}

DecoderPcs ==
  {"parse", "cfg_loop", "if_loop", "ep_loop", "if_next", "if_err", "cfg_after",
   "cfg_err", "return"}

\* C11: libusb_get_config_descriptor_by_value returns absent when no index
\* below num_configurations has the requested bConfigurationValue, or when a
\* probe fails before a match; otherwise it goes on as the retrieval by
\* index of the smallest matching index, whose tree carries the requested
\* value.  No configuration at an index >= num_configurations is fetched or
\* decoded.
C11_ByValueSmallestMatch ==
  /\ (ByValue /\ pc \in {"done", "released"} /\ Matching = {}) => ret = "NULL"
  /\ (ByValue /\ pc = "done" /\ found # 1 /\ vi < Len(values)) => ret = "NULL"
  /\ (ByValue /\ (pc \in FetchPcs \cup DecoderPcs \/ ret = "config")) =>
       /\ Matching # {}
       /\ cidx \in Matching
       /\ \A n \in Matching : cidx <= n
  /\ (ByValue /\ ret = "config") => config.bConfigurationValue = want
  /\ (pc \in FetchPcs \cup DecoderPcs) => cidx < Len(values)

\* C11 witness: a tree returned by value for the second configuration, the
\* first one having another value.
C11_Witness == Returned /\ ByValue /\ cidx = 1 /\ values[1] # want

\* the 6-byte probes a retrieval by value has had answered
ValueProbes == IF ~ByValue THEN 0 ELSE IF found = 1 THEN vi + 1 ELSE vi

\* C12 as stated: every retrieval, by value included, issues at most two
\* backend calls and decodes only after both.
C12_AtMostTwoCalls ==
  /\ ncalls <= 2
  /\ pc \in DecoderPcs => ncalls = 2

\* C12, amended: a retrieval of the active configuration or by index issues
\* at most two backend calls, the probe and then the full fetch; a retrieval
\* by value issues before them one probe per index up to the first match;
\* the decoder runs only after the probe and the fetch both succeeded, on
\* the wTotalLength bytes fetched.
C12_ProbeThenFetch ==
  /\ ~ByValue => ncalls <= 2
  /\ ByValue => ncalls <= ValueProbes + 2 /\ ValueProbes <= Len(values)
  /\ pc = "probe" => ncalls = ValueProbes
  /\ pc = "fetch" => ncalls = ValueProbes + 1
  /\ pc \in DecoderPcs =>
       /\ ncalls = ValueProbes + 2
       /\ buf = ConfigBytes(dev, cidx)
       /\ Len(buf) = config.wTotalLength

\* C12 witness: the decoder about to run in a retrieval by value that took
\* two probes to find its configuration.
C12_Witness == pc = "parse" /\ ByValue /\ ncalls = 4

\* ---- ASCII reduction

\* code units the reduction visits: those that begin below the declared
\* length, as far as the capacity allows
UnitsReduced ==
  LET units == (strdesc.tbuf[1] - 1) \div 2
  IN  IF units < strdesc.length - 1 THEN units ELSE strdesc.length - 1

\* C13 as stated: the reduction of 04 03 41 00 42 20, capacity sufficing,
\* yields "A?".
C13_ScenarioYieldsTwoBytes ==
  (/\ pc = "string_done"
   /\ ascii.r >= 0
   /\ strdesc.tbuf = <<4, 3, 65, 0, 66, 32>>
   /\ strdesc.length >= 3) => ascii.data = <<65, 63, 0>>

\* C13, amended: every code unit that begins below the declared bLength
\* contributes one output byte, its low byte when its high byte is zero and
\* '?' otherwise; 04 03 41 00 42 20 declares one code unit and yields "A",
\* and 06 03 41 00 42 20 yields "A?".
C13_AsciiReduction ==
  (pc = "string_done" /\ ascii.r >= 0) =>
    /\ ascii.r = UnitsReduced
    /\ Len(ascii.data) = UnitsReduced + 1
    /\ ascii.data[UnitsReduced + 1] = 0
    /\ \A k \in 1..UnitsReduced :
         2 * k + 2 <= Len(strdesc.tbuf) =>
           ascii.data[k] = IF strdesc.tbuf[2 * k + 2] = 0
                           THEN strdesc.tbuf[2 * k + 1] ELSE 63
    /\ (strdesc.tbuf = <<4, 3, 65, 0, 66, 32>> /\ strdesc.length >= 2) =>
         ascii.data = <<65, 0>>
    /\ (strdesc.tbuf = <<6, 3, 65, 0, 66, 32>> /\ strdesc.length >= 3) =>
         ascii.data = <<65, 63, 0>>

\* C13 witness: "A?" reduced from 06 03 41 00 42 20.
C13_Witness ==
  /\ pc = "string_done"
  /\ strdesc.tbuf = <<6, 3, 65, 0, 66, 32>>
  /\ ascii.data = <<65, 63, 0>>

\* ---- the endpoint loop

\* C14: when the descriptor at an endpoint slot's position (within the
\* buffer) is not of type endpoint, decoding fails: no tree is returned with
\* an endpoint slot left zeroed.
C14_NonEndpointFails ==
  (Returned /\ ~oob) =>
    \A ep \in AllEndpoints : ep.bDescriptorType = LIBUSB_DT_ENDPOINT

\* C15: every read the decoders make is within the buffer: no header is read
\* with fewer than 2 bytes remaining.
C15_ReadsWithinBuffer == ~oob

\* C16: after a successful retrieval and its release every allocation of the
\* retrieval, the raw descriptor buffer included, has been freed exactly
\* once.
C16_ReleaseFreesEverything ==
  (pc = "released" /\ ret = "config") => (live = {} /\ dfreed = {})

\* C17: parse_configuration terminates: every pass of the interface-slot
\* loop moves to the next slot, every pass of the alternate-setting loop
\* strictly reduces the bytes remaining, every pass of the endpoint loop
\* moves to the next endpoint slot without adding bytes, and a skip scan
\* that moves the cursor reduces the bytes remaining.
C17_LoopsProgress ==
  [][/\ (pc = "cfg_loop" /\ pc' = "if_loop") =>
          /\ i < config.bNumInterfaces
          /\ csize' <= csize
          /\ cpos' # cpos => csize' < csize
     /\ (pc = "if_loop" /\ pc' \in {"ep_loop", "if_next"}) => size' < size
     /\ (pc = "ep_loop" /\ pc' \in {"ep_loop", "if_next"}) =>
          /\ j < CurIfp.bNumEndpoints
          /\ j' = j + 1
          /\ size' <= size
     /\ (pc = "if_next" /\ pc' = "if_loop") => size' = size
     /\ (pc = "cfg_after" /\ pc' = "cfg_loop") =>
          /\ i < config.bNumInterfaces
          /\ i' = i + 1]_vars

\* C17 witness: parse_configuration has returned on a stream whose second
\* interface header declares a bLength of 0.
C17_Witness ==
  /\ pc = "return"
  /\ badlen
  /\ Len(dev.chunks) >= 2
  /\ dev.chunks[1] = "IF00"
  /\ dev.chunks[2] = "IFzero"

\* ---- the configuration's extra blob

\* the class descriptors that lead the device's stream
RECURSIVE LeadingClass(_)
LeadingClass(chunks) ==
  IF chunks # <<>> /\ Head(chunks) = "CS"
  THEN ChunkBytes("CS", 0) \o LeadingClass(Tail(chunks))
  ELSE <<>>

\* C18: the configuration's extra blob, when present, is exactly the run of
\* class and vendor descriptors that follows the configuration header; the
\* scans before the interface slots with index > 0 find an empty run; a
\* returned tree lacks the blob only when there is no such run.
C18_ConfigExtraIsFirstRun ==
  /\ config.extra.p =>
       /\ config.extra.b = LeadingClass(dev.chunks)
       /\ config.extra.b # <<>>
  /\ (pc = "cfg_loop" /\ i > 0 /\ i < config.bNumInterfaces) =>
       SkipScan(cpos, csize, TRUE).pos = cpos
  /\ (Returned /\ config.bNumInterfaces >= 1 /\ ~config.extra.p) =>
       LeadingClass(dev.chunks) = <<>>

\* C18 witness: a tree of two interfaces returned with the leading class
\* descriptor as the configuration's blob.
C18_Witness ==
  /\ Returned
  /\ config.extra.p
  /\ config.bNumInterfaces = 2
  /\ \A n \in 1..2 : config.interface.b[n].num_altsetting >= 1

\* ---- the codec

RECURSIVE SumWidths(_)
SumWidths(descriptor) ==
  IF descriptor = <<>> THEN 0
  ELSE FieldWidth(Head(descriptor)) + SumWidths(Tail(descriptor))

\* C19: with the destination on a 4-byte boundary every dword field is
\* stored at a multiple of 4 and every word field at a multiple of 2, and
\* the returned count is the sum of the source field widths.
C19_FieldsAligned ==
  pc = "codec_done" =>
    /\ \A k \in 1..Len(format.descriptor) :
         /\ format.descriptor[k] \in {"d", "D"} => stored.offs[k] % 4 = 0
         /\ format.descriptor[k] \in {"w", "W"} => stored.offs[k] % 2 = 0
    /\ stored.sp = SumWidths(format.descriptor)

====
